---- MODULE Spec2Model ----
(***************************************************************************)
(* State-machine model of the BlackHole gallery pages (Mars, Home, EPIC,   *)
(* APOD).  Each page is an independent React component: `route` names the  *)
(* page that is mounted, and only that page's handlers run.                *)
(*                                                                         *)
(* JavaScript values are represented as follows.  Array indices are        *)
(* 0-based as in the source; At(arr, i) reads element i.  null, undefined  *)
(* and NaN are integers outside every index range.  A draw of             *)
(* Math.random() is k / 10000 for a k of Rands.                            *)
(***************************************************************************)
EXTENDS Integers, Sequences, FiniteSets, TLC

VARIABLES
    route, mounted,
    \* ---- Mars page (Mars.tsx 67-155)
    photos, selected, loading, err, params, requestIdRef,
    timers,        \* pending setTimeout callbacks of the debounce effect
    inflight,      \* tags of the loadPhotos calls awaiting fetchPhotos
    burstFetches,  \* fetches the debounce issued since the last effect run
    issuedCurrent, \* the loadPhotos call made last carried params, and no
                   \* parameter has changed since
    \* ---- Home page (Mars.tsx 437-506)
    home_data, home_searchTerm, home_loading, home_err,
    home_ops,      \* operations awaiting their network call, in issue order
    home_late,     \* the data displayed was set by an operation that resolved
                   \* after an operation issued later than it had resolved
    \* ---- EPIC page (Mars.tsx 618-665)
    epic_data, epic_loading, epic_error, epic_index,
    epic_ops,      \* fetchData calls awaiting axios.get, in issue order
    \* ---- APOD page (Apod.tsx 14-37)
    apod_data, apod_loading, apod_error, apod_ops,
    \* ---- the merge of the Home page applied on its own (Mars.tsx 451-460)
    merge_in,      \* the responses of the topics' searches
    merge_out      \* the merged list, once computed

marsVars == <<photos, selected, loading, err, params, requestIdRef,
              timers, inflight, burstFetches, issuedCurrent>>
homeVars == <<home_data, home_searchTerm, home_loading, home_err, home_ops,
              home_late>>
epicVars == <<epic_data, epic_loading, epic_error, epic_index, epic_ops>>
apodVars == <<apod_data, apod_loading, apod_error, apod_ops>>
mergeVars == <<merge_in, merge_out>>
vars == <<route, mounted, marsVars, homeVars, epicVars, apodVars, mergeVars>>

(***************************************************************************)
(* Bounds of the model.                                                    *)
(***************************************************************************)
MaxRequests == 2     \* loadPhotos calls per run
MaxHomeOps == 2      \* Home operations in flight together
MaxEpicOps == 2      \* EPIC fetches in flight together

(***************************************************************************)
(* JavaScript values.                                                      *)
(***************************************************************************)
Null == -1000
Undefined == -1001
NaN == -1002

Min(a, b) == IF a <= b THEN a ELSE b
Max(a, b) == IF a >= b THEN a ELSE b

\* a % n of JavaScript: the sign follows the dividend, and n = 0 gives NaN.
JsRem(a, n) ==
    IF n = 0 THEN NaN
    ELSE IF a >= 0 THEN a % n
    ELSE -((-a) % n)

\* arr[i] of JavaScript: undefined outside the array.
At(arr, i) == IF i \in 0 .. (Len(arr) - 1) THEN arr[i + 1] ELSE Undefined

\* Draws of Math.random(), in ten-thousandths: 0 and 0.9999.
Rands == {0, 9999}

\* Math.floor(Math.random() * m) with Math.random() = k / 10000.
FloorRandom(k, m) == (k * m) \div 10000

randInt(max, k) == FloorRandom(k, max + 1)

\* A stream of Math.random() draws: two draws, repeated in a cycle.
RandStreams == [1 .. 2 -> Rands]
Draw(rnd, i) == rnd[((i - 1) % Len(rnd)) + 1]

RECURSIVE ShuffleFrom(_, _, _)
\* The loop of shuffle: i runs from a.length - 1 down to 1, swapping a[i], a[j].
ShuffleFrom(a, i, rnd) ==
    IF i <= 0 THEN a
    ELSE LET j == FloorRandom(Draw(rnd, i), i + 1)
             b == [a EXCEPT ![i + 1] = a[j + 1], ![j + 1] = a[i + 1]]
         IN ShuffleFrom(b, i - 1, rnd)

\* Draw(rnd, i) is the draw of Math.random() made for loop index i.
shuffle(arr, rnd) == ShuffleFrom(arr, Len(arr) - 1, rnd)

(***************************************************************************)
(* Mars page: tables.                                                      *)
(***************************************************************************)
ROVERS == <<"Curiosity", "Opportunity", "Spirit">>

CameraOptions ==
    [Curiosity |-> <<"FHAZ", "RHAZ", "MAST", "CHEMCAM", "MAHLI", "MARDI", "NAVCAM">>,
     Opportunity |-> <<"FHAZ", "RHAZ", "NAVCAM", "PANCAM", "MINITES">>,
     Spirit |-> <<"FHAZ", "RHAZ", "NAVCAM", "PANCAM", "MINITES">>]

MAX_SOL == [Curiosity |-> 3500, Opportunity |-> 5111, Spirit |-> 2208]

DEBOUNCE_MS == 500

ERR_MARS == "Impossible de recuperer les photos pour ces parametres."

InitialParams == [sol |-> 1000, camera |-> "FHAZ", rover |-> "Curiosity"]

\* Values typed or dragged into the sol inputs.
SolInputs == {-5, 9999}

\* What fetchPhotos can resolve with: an array of photos (their ids), or
\* something that is not an array.
FetchedLists == {<<>>, <<1>>, <<1, 2, 3>>}
Responses ==
    {[isArray |-> TRUE, val |-> l] : l \in FetchedLists}
        \cup {[isArray |-> FALSE, val |-> <<>>]}

(***************************************************************************)
(* Mars page: loadPhotos (Mars.tsx 88-107).                                *)
(***************************************************************************)
\* const id = ++requestIdRef.current
NextRequestId(cur) == cur + 1

IsStaleNever(id) == FALSE

\* requestIdRef.current !== id
IsStale(id) == requestIdRef # id

\* Array.isArray(fetched) ? fetched : []
ListOf(fetched) == IF fetched.isArray THEN fetched.val ELSE <<>>

SelectedAfterLoadKept(list) == selected
SelectedAfterLoadAlwaysFirst(list) == 0

\* setSelected(list.length ? 0 : null)
SelectedAfterLoad(list) == IF Len(list) # 0 THEN 0 ELSE Null

LoadPhotosCallKeepsErr(p) ==
    LET id == NextRequestId(requestIdRef) IN
    /\ requestIdRef < MaxRequests
    /\ requestIdRef' = id
    /\ loading' = TRUE
    /\ err' = err
    /\ inflight' = inflight \cup {id}
    /\ issuedCurrent' = (p = params)

\* The synchronous part of loadPhotos(p), up to the await.
LoadPhotosCall(p) ==
    LET id == NextRequestId(requestIdRef) IN
    /\ requestIdRef < MaxRequests
    /\ requestIdRef' = id
    /\ loading' = TRUE
    /\ err' = ""
    /\ inflight' = inflight \cup {id}
    /\ issuedCurrent' = (p = params)

\* fetchPhotos resolved with `fetched` for the call tagged id.
LoadPhotosResolved(id, fetched) ==
    /\ route = "Mars"
    /\ id \in inflight
    /\ inflight' = inflight \ {id}
    /\ IF IsStale(id)
       THEN UNCHANGED <<photos, selected, loading>>
       ELSE /\ photos' = ListOf(fetched)
            /\ selected' = SelectedAfterLoad(ListOf(fetched))
            /\ loading' = FALSE
    /\ UNCHANGED <<err, params, requestIdRef, timers, burstFetches, issuedCurrent>>
    /\ UNCHANGED <<route, mounted, homeVars, epicVars, apodVars, mergeVars>>

LoadPhotosRejectedDropsPhotos(id) ==
    /\ route = "Mars"
    /\ id \in inflight
    /\ inflight' = inflight \ {id}
    /\ IF IsStale(id)
       THEN UNCHANGED <<err, loading, photos, selected>>
       ELSE /\ err' = ERR_MARS
            /\ loading' = FALSE
            /\ photos' = <<>>
            /\ selected' = Null
    /\ UNCHANGED <<params, requestIdRef, timers, burstFetches, issuedCurrent>>
    /\ UNCHANGED <<route, mounted, homeVars, epicVars, apodVars, mergeVars>>

\* fetchPhotos rejected for the call tagged id.
LoadPhotosRejected(id) ==
    /\ route = "Mars"
    /\ id \in inflight
    /\ inflight' = inflight \ {id}
    /\ IF IsStale(id)
       THEN UNCHANGED <<err, loading>>
       ELSE /\ err' = ERR_MARS
            /\ loading' = FALSE
    /\ UNCHANGED <<photos, selected, params, requestIdRef, timers, burstFetches,
                   issuedCurrent>>
    /\ UNCHANGED <<route, mounted, homeVars, epicVars, apodVars, mergeVars>>

\* The Refresh button: onClick={() => loadPhotos()}, disabled={loading}.
Refresh ==
    /\ route = "Mars" /\ mounted
    /\ ~loading
    /\ LoadPhotosCall(params)
    /\ UNCHANGED <<photos, selected, params, timers, burstFetches>>
    /\ UNCHANGED <<route, mounted, homeVars, epicVars, apodVars, mergeVars>>

(***************************************************************************)
(* Mars page: the debounce effect (Mars.tsx 109-114).                      *)
(***************************************************************************)
ClearTimeoutForgotten(ts) == ts

\* return () => clearTimeout(t): the timer of the previous run, if still pending.
ClearTimeout(ts) == IF ts = <<>> THEN ts ELSE SubSeq(ts, 1, Len(ts) - 1)

\* setTimeout(() => loadPhotos(params), 500)
SetTimeout(ts, p) == Append(ts, [p |-> p, left |-> DEBOUNCE_MS])

\* The dependency list [params.rover, params.camera, params.sol].
DepsChanged(old, new) ==
    old.rover # new.rover \/ old.camera # new.camera \/ old.sol # new.sol

SetParamsWithoutTimer(new) ==
    /\ params' = new
    /\ issuedCurrent' = (issuedCurrent /\ ~DepsChanged(params, new))
    /\ UNCHANGED <<timers, burstFetches>>

\* setParams(new) and the render that follows: the effect runs again (cleanup,
\* then a new timer) only when a dependency changed.
SetParams(new) ==
    /\ params' = new
    /\ issuedCurrent' = (issuedCurrent /\ ~DepsChanged(params, new))
    /\ IF DepsChanged(params, new)
       THEN /\ timers' = SetTimeout(ClearTimeout(timers), new)
            /\ burstFetches' = 0
       ELSE UNCHANGED <<timers, burstFetches>>

\* Mount: the effect runs for the first time.
MarsMount ==
    /\ route = "Mars" /\ ~mounted
    /\ mounted' = TRUE
    /\ timers' = SetTimeout(timers, params)
    /\ UNCHANGED <<photos, selected, loading, err, params, requestIdRef,
                   inflight, burstFetches, issuedCurrent>>
    /\ UNCHANGED <<route, homeVars, epicVars, apodVars, mergeVars>>

TickMs == DEBOUNCE_MS \div 2

\* Time passes, unless a timer is due.
Tick ==
    /\ route = "Mars"
    /\ timers # <<>>
    /\ \A i \in 1 .. Len(timers) : timers[i].left > 0
    /\ timers' = [i \in 1 .. Len(timers) |->
                    [timers[i] EXCEPT !.left = Max(0, timers[i].left - TickMs)]]
    /\ UNCHANGED <<photos, selected, loading, err, params, requestIdRef,
                   inflight, burstFetches, issuedCurrent>>
    /\ UNCHANGED <<route, mounted, homeVars, epicVars, apodVars, mergeVars>>

\* A due timer runs its callback: loadPhotos(params), params as captured.
TimerFire(i) ==
    /\ route = "Mars"
    /\ i \in 1 .. Len(timers)
    /\ timers[i].left = 0
    /\ timers' = SubSeq(timers, 1, i - 1) \o SubSeq(timers, i + 1, Len(timers))
    /\ LoadPhotosCall(timers[i].p)
    /\ burstFetches' = burstFetches + 1
    /\ UNCHANGED <<photos, selected, params>>
    /\ UNCHANGED <<route, mounted, homeVars, epicVars, apodVars, mergeVars>>

(***************************************************************************)
(* Mars page: parameter handlers (Mars.tsx 116-138).                       *)
(***************************************************************************)
\* CameraOptions[rover][0]?.abbreviation ?? "FHAZ"
FirstCam(rover) ==
    IF CameraOptions[rover] # <<>> THEN CameraOptions[rover][1] ELSE "FHAZ"

\* Math.max(0, Math.min(Number(value || 0), MAX_SOL[params.rover]))
ClampSol(v, rover) == Max(0, Min(v, MAX_SOL[rover]))

RoverChangeParamsKeepsCamera(p, rover) == [p EXCEPT !.rover = rover]

\* (p) => ({ ...p, rover, camera: firstCam })
RoverChangeParams(p, rover) == [p EXCEPT !.rover = rover, !.camera = FirstCam(rover)]

marsHandlerFrame ==
    /\ UNCHANGED <<photos, selected, loading, err, requestIdRef, inflight>>
    /\ UNCHANGED <<route, mounted, homeVars, epicVars, apodVars, mergeVars>>

handleRoverChange(rover) ==
    /\ route = "Mars" /\ mounted
    /\ rover # params.rover
    /\ SetParams(RoverChangeParams(params, rover))
    /\ marsHandlerFrame

handleCameraChange(camera) ==
    /\ route = "Mars" /\ mounted
    /\ camera # params.camera
    /\ SetParams([params EXCEPT !.camera = camera])
    /\ marsHandlerFrame

handleSolInput(v) ==
    /\ route = "Mars" /\ mounted
    /\ v # params.sol
    /\ SetParams([params EXCEPT !.sol = ClampSol(v, params.rover)])
    /\ marsHandlerFrame

\* The Random button; k1, k2, k3 are the three draws of Math.random().
SurpriseParams(k1, k2, k3) ==
    LET rover == ROVERS[randInt(Len(ROVERS) - 1, k1) + 1]
        cams == CameraOptions[rover]
    IN [rover |-> rover,
        camera |-> cams[randInt(Len(cams) - 1, k2) + 1],
        sol |-> randInt(MAX_SOL[rover], k3)]

surprise(k1, k2, k3) ==
    /\ route = "Mars" /\ mounted
    /\ SetParams(SurpriseParams(k1, k2, k3))
    /\ marsHandlerFrame

\* The options of the camera select that the user picks among.
CamPicks(rover) == {CameraOptions[rover][Len(CameraOptions[rover])]}

(***************************************************************************)
(* Mars page: hero, grid, lightbox and keyboard (Mars.tsx 83-86, 139-155,  *)
(* 258-372).                                                               *)
(***************************************************************************)
\* selected != null ? photos[selected] : photos[0]
currentPhoto == IF selected # Null THEN At(photos, selected) ELSE At(photos, 0)

PrevSelectedNoWrap(i, n) == IF i = Null THEN i ELSE JsRem(i - 1, n)

\* (i) => (i == null ? i : (i - 1 + photos.length) % photos.length)
PrevSelected(i, n) == IF i = Null THEN i ELSE JsRem(i - 1 + n, n)

NextSelectedNoWrap(i, n) == IF i = Null THEN i ELSE i + 1

\* (i) => (i == null ? i : (i + 1) % photos.length)
NextSelected(i, n) == IF i = Null THEN i ELSE JsRem(i + 1, n)

\* if (!photos.length || selected == null) return
OnKeyIgnored == Len(photos) = 0 \/ selected = Null

\* The keydown listener: the value of selected after key `key`.
onKey(key) ==
    IF OnKeyIgnored THEN selected
    ELSE IF key = "ArrowLeft" THEN PrevSelected(selected, Len(photos))
    ELSE IF key = "ArrowRight" THEN NextSelected(selected, Len(photos))
    ELSE IF key = "Escape" THEN Null
    ELSE selected

Keys == {"ArrowLeft", "ArrowRight", "Escape"}

\* photos.findIndex((p) => p.id === id)
FindIndex(arr, id) ==
    IF \E i \in 1 .. Len(arr) : arr[i] = id
    THEN (CHOOSE i \in 1 .. Len(arr) :
            arr[i] = id /\ \A j \in 1 .. (i - 1) : arr[j] # id) - 1
    ELSE -1

\* selected != null && photos[selected]: the lightbox is rendered.
LightboxOpen == selected # Null /\ At(photos, selected) # Undefined

marsNavFrame ==
    /\ UNCHANGED <<loading, err, params, requestIdRef, timers, inflight,
                   burstFetches, issuedCurrent>>
    /\ UNCHANGED <<route, mounted, homeVars, epicVars, apodVars, mergeVars>>

MarsKeyDown(key) ==
    /\ route = "Mars" /\ mounted
    /\ selected' = onKey(key)
    /\ UNCHANGED photos
    /\ marsNavFrame

\* The hero image, rendered when not loading and currentPhoto exists.
HeroClick ==
    /\ route = "Mars" /\ mounted
    /\ ~loading /\ currentPhoto # Undefined
    /\ selected' = FindIndex(photos, currentPhoto)
    /\ UNCHANGED photos
    /\ marsNavFrame

\* A thumbnail of the grid, rendered when not loading.
GridClick(i) ==
    /\ route = "Mars" /\ mounted
    /\ ~loading /\ i \in 0 .. (Len(photos) - 1)
    /\ selected' = i
    /\ UNCHANGED photos
    /\ marsNavFrame

\* The backdrop or the close button of the lightbox.
LightboxClose ==
    /\ route = "Mars" /\ mounted
    /\ LightboxOpen
    /\ selected' = Null
    /\ UNCHANGED photos
    /\ marsNavFrame

LightboxPrev ==
    /\ route = "Mars" /\ mounted
    /\ LightboxOpen
    /\ selected' = PrevSelected(selected, Len(photos))
    /\ UNCHANGED photos
    /\ marsNavFrame

LightboxNext ==
    /\ route = "Mars" /\ mounted
    /\ LightboxOpen
    /\ selected' = NextSelected(selected, Len(photos))
    /\ UNCHANGED photos
    /\ marsNavFrame

\* The Shuffle button, disabled when photos is empty.
shuffleOrder(rnd) ==
    /\ route = "Mars" /\ mounted
    /\ Len(photos) # 0
    /\ photos' = shuffle(photos, rnd)
    /\ UNCHANGED selected
    /\ marsNavFrame

MarsNext ==
    \/ MarsMount
    \/ Tick
    \/ \E i \in 1 .. MaxRequests : TimerFire(i)
    \/ Refresh
    \/ \E id \in 1 .. MaxRequests, fetched \in Responses : LoadPhotosResolved(id, fetched)
    \/ \E id \in 1 .. MaxRequests : LoadPhotosRejected(id)
    \/ \E i \in 1 .. Len(ROVERS) : handleRoverChange(ROVERS[i])
    \/ \E camera \in CamPicks(params.rover) : handleCameraChange(camera)
    \/ \E v \in SolInputs : handleSolInput(v)
    \/ \E k1 \in Rands, k2 \in Rands, k3 \in Rands : surprise(k1, k2, k3)
    \/ \E key \in Keys : MarsKeyDown(key)
    \/ HeroClick
    \/ \E i \in 0 .. (Len(photos) - 1) : GridClick(i)
    \/ LightboxClose
    \/ LightboxPrev
    \/ LightboxNext
    \/ \E rnd \in RandStreams : shuffleOrder(rnd)

(***************************************************************************)
(* Home page: searchImages and the merge (Mars.tsx 410-435, 451-460).      *)
(* A URL is a number, 0 standing for a missing or empty href; a title is a *)
(* string, "" standing for a missing or empty title.                       *)
(***************************************************************************)
TOPIC_COUNT == 3
DISPLAY_COUNT == 15
SEARCH_COUNT == 18

ERR_LOAD_RANDOM == "Impossible de charger les images pour le moment."
ERR_SURPRISE_ME == "Impossible de charger un nouveau set d'images."
ERR_SEARCH == "Recherche impossible. Reessaie avec un autre mot-cle."

\* arr.slice(0, n)
Slice(arr, n) == SubSeq(arr, 1, Min(n, Len(arr)))


\* results.flat()
RECURSIVE Flat(_)
Flat(lists) == IF lists = <<>> THEN <<>> ELSE Head(lists) \o Flat(Tail(lists))

\* { title: it.data?.[0]?.title || "Untitled", url: it.links?.[0]?.href || "" }
ToHomeData(it) ==
    [title |-> IF it.title = "" THEN "Untitled" ELSE it.title, url |-> it.href]

\* (x) => x.url
HasUrl(x) == x.url # 0

\* arr.filter((x) => x.url)
RECURSIVE FilterHasUrl(_)
FilterHasUrl(arr) ==
    IF arr = <<>> THEN <<>>
    ELSE (IF HasUrl(Head(arr)) THEN <<Head(arr)>> ELSE <<>>) \o FilterHasUrl(Tail(arr))

\* searchImages: the items of the response, mapped, those without a URL dropped.
searchImages(items) ==
    FilterHasUrl([i \in 1 .. Len(items) |-> ToHomeData(items[i])])

MapSetKeepsOldValue(m, k, v) ==
    IF \E i \in 1 .. Len(m) : m[i].key = k THEN m
    ELSE Append(m, [key |-> k, value |-> v])

\* Map.prototype.set: an existing key keeps its place and takes the new value;
\* a new key is added at the end.
MapSet(m, k, v) ==
    IF \E i \in 1 .. Len(m) : m[i].key = k
    THEN [i \in 1 .. Len(m) |-> IF m[i].key = k THEN [key |-> k, value |-> v] ELSE m[i]]
    ELSE Append(m, [key |-> k, value |-> v])

\* new Map(entries): the entries are set one after the other.
RECURSIVE NewMapFrom(_, _)
NewMapFrom(m, xs) ==
    IF xs = <<>> THEN m
    ELSE NewMapFrom(MapSet(m, Head(xs).url, Head(xs)), Tail(xs))

\* Array.from(new Map(xs.map((x) => [x.url, x])).values())
UniqueByUrl(xs) ==
    LET m == NewMapFrom(<<>>, xs) IN [i \in 1 .. Len(m) |-> m[i].value]

MergedWithoutMap(results, rnd) == Slice(shuffle(Flat(results), rnd), DISPLAY_COUNT)

\* shuffle(unique).slice(0, 15) of loadRandom and surpriseMe; results holds what
\* searchImages returned for each topic.
Merged(results, rnd) == Slice(shuffle(UniqueByUrl(Flat(results)), rnd), DISPLAY_COUNT)

\* shuffle(items).slice(0, 18) of handleSearchSubmit.
SearchShown(items, rnd) == Slice(shuffle(items, rnd), SEARCH_COUNT)

\* searchTerm.trim(), the term being a sequence of characters.
RECURSIVE TrimStart(_)
TrimStart(t) == IF t # <<>> /\ Head(t) = " " THEN TrimStart(Tail(t)) ELSE t
RECURSIVE TrimEnd(_)
TrimEnd(t) ==
    IF t # <<>> /\ t[Len(t)] = " " THEN TrimEnd(SubSeq(t, 1, Len(t) - 1)) ELSE t
Trim(t) == TrimEnd(TrimStart(t))

(***************************************************************************)
(* Home page: operations (Mars.tsx 446-506).                               *)
(***************************************************************************)
\* Raw responses of the image search used on the page.
RawA1 == [title |-> "a1", href |-> 1]
RawA2 == [title |-> "", href |-> 1]
RawB == [title |-> "b", href |-> 2]
RawNoLink == [title |-> "c", href |-> 0]
\* The first topic (or the searched term) answers with nothing or with two
\* items, the last topic with nothing or with an item of the same URL and one
\* without a link; the topics between them answer with nothing.
HomeRawFirst == {<<>>, <<RawB, RawA2>>}
HomeRawLast == {<<>>, <<RawA1, RawNoLink>>}
HomeResults ==
    {[t \in 1 .. TOPIC_COUNT |-> IF t = 1 THEN a ELSE IF t = TOPIC_COUNT THEN b ELSE <<>>] :
        a \in HomeRawFirst, b \in HomeRawLast}
SearchTerms == {<<>>, <<" ">>, <<" ", "m">>}

HomeErrOf(op) ==
    IF op = "loadRandom" THEN ERR_LOAD_RANDOM
    ELSE IF op = "surpriseMe" THEN ERR_SURPRISE_ME
    ELSE ERR_SEARCH

RemoveAt(ops, i) == SubSeq(ops, 1, i - 1) \o SubSeq(ops, i + 1, Len(ops))

homeFrame == UNCHANGED <<route, marsVars, epicVars, apodVars, mergeVars>>

\* The operations in flight when the one at place i resolves: those issued
\* before it are marked as overtaken, and it leaves the list.
Overtake(ops, i) ==
    RemoveAt([j \in 1 .. Len(ops) |->
                 IF j < i THEN [ops[j] EXCEPT !.overtaken = TRUE] ELSE ops[j]], i)

\* The synchronous part of an operation, up to the await; `before` keeps the
\* data displayed at the call, `overtaken` tells whether an operation issued
\* later has resolved since.
HomeCall(op) ==
    /\ Len(home_ops) < MaxHomeOps
    /\ home_loading' = TRUE
    /\ home_err' = ""
    /\ home_ops' = Append(home_ops,
                          [op |-> op, before |-> home_data, overtaken |-> FALSE])
    /\ UNCHANGED <<home_data, home_searchTerm, home_late>>

\* useEffect(() => { loadRandom() }, [])
HomeMount ==
    /\ route = "Home" /\ ~mounted
    /\ mounted' = TRUE
    /\ HomeCall("loadRandom")
    /\ homeFrame

surpriseMe ==
    /\ route = "Home" /\ mounted
    /\ HomeCall("surpriseMe")
    /\ UNCHANGED mounted
    /\ homeFrame

\* onChange={(e) => setSearchTerm(e.target.value)}
setSearchTerm(t) ==
    /\ route = "Home" /\ mounted
    /\ t # home_searchTerm
    /\ home_searchTerm' = t
    /\ UNCHANGED <<home_data, home_loading, home_err, home_ops, home_late, mounted>>
    /\ homeFrame

\* if (!searchTerm.trim()) return
handleSearchSubmit ==
    /\ route = "Home" /\ mounted
    /\ IF Trim(home_searchTerm) = <<>>
       THEN UNCHANGED homeVars
       ELSE HomeCall("search")
    /\ UNCHANGED mounted
    /\ homeFrame

\* What the operation sets data to when its call resolves.
HomeDataOf(op, results, rnd) ==
    IF op = "search"
    THEN SearchShown(searchImages(results[1]), rnd)
    ELSE Merged([t \in 1 .. TOPIC_COUNT |-> searchImages(results[t])], rnd)

HomeResolvedLatestOnly(i, results, rnd) ==
    /\ route = "Home"
    /\ i \in 1 .. Len(home_ops)
    /\ IF home_ops[i].overtaken
       THEN UNCHANGED <<home_data, home_loading, home_late>>
       ELSE /\ home_data' = HomeDataOf(home_ops[i].op, results, rnd)
            /\ home_loading' = FALSE
            /\ home_late' = FALSE
    /\ home_ops' = Overtake(home_ops, i)
    /\ UNCHANGED <<home_err, home_searchTerm, mounted>>
    /\ UNCHANGED <<route, marsVars, epicVars, apodVars, mergeVars>>

\* The network calls of operation i resolved; rnd are the draws of its shuffle.
HomeResolved(i, results, rnd) ==
    /\ route = "Home"
    /\ i \in 1 .. Len(home_ops)
    /\ home_data' = HomeDataOf(home_ops[i].op, results, rnd)
    /\ home_loading' = FALSE
    /\ home_late' = home_ops[i].overtaken
    /\ home_ops' = Overtake(home_ops, i)
    /\ UNCHANGED <<home_err, home_searchTerm, mounted>>
    /\ homeFrame

\* A network call of operation i failed.
HomeRejected(i) ==
    /\ route = "Home"
    /\ i \in 1 .. Len(home_ops)
    /\ home_err' = HomeErrOf(home_ops[i].op)
    /\ home_loading' = FALSE
    /\ home_ops' = RemoveAt(home_ops, i)
    /\ UNCHANGED <<home_data, home_searchTerm, home_late, mounted>>
    /\ homeFrame

HomeNext ==
    \/ HomeMount
    \/ surpriseMe
    \/ \E t \in SearchTerms : setSearchTerm(t)
    \/ handleSearchSubmit
    \/ \E i \in 1 .. MaxHomeOps, results \in HomeResults, rnd \in RandStreams :
           HomeResolved(i, results, rnd)
    \/ \E i \in 1 .. MaxHomeOps : HomeRejected(i)

(***************************************************************************)
(* EPIC page (Mars.tsx 618-665, 675-775).                                  *)
(***************************************************************************)
ERR_EPIC == "Une erreur est survenue lors du chargement des images EPIC."

\* What the EPIC feed can answer: lists of items (their identifiers).
EpicLists == {<<>>, <<1>>, <<1, 2, 3>>}

\* const hasData = data.length > 0
hasData == Len(epic_data) > 0

\* const current = hasData ? data[index] : null
current == IF hasData THEN At(epic_data, epic_index) ELSE Null

\* hasData && setIndex((i) => (i - 1 + data.length) % data.length)
prev(i) == IF hasData THEN JsRem(i - 1 + Len(epic_data), Len(epic_data)) ELSE i

\* hasData && setIndex((i) => (i + 1) % data.length)
next(i) == IF hasData THEN JsRem(i + 1, Len(epic_data)) ELSE i

\* hasData && setIndex(() => Math.floor(Math.random() * data.length))
EpicSurprise(i, k) == IF hasData THEN FloorRandom(k, Len(epic_data)) ELSE i

\* disabled={!hasData || loading} of the Prev, Next and Surprise me buttons.
EpicNavDisabled == ~hasData \/ epic_loading

EpicSetShownWhileLoading == hasData

\* The Refresh button and the thumbnails are rendered in the branch
\* loading ? ... : hasData ? ... : ...
EpicSetShown == ~epic_loading /\ hasData

epicFrame == UNCHANGED <<route, marsVars, homeVars, apodVars, mergeVars>>

\* The synchronous part of fetchData, up to the await; the entry added to
\* epic_ops keeps data and index as they are at the call.
EpicFetchCall ==
    /\ Len(epic_ops) < MaxEpicOps
    /\ epic_loading' = TRUE
    /\ epic_error' = ""
    /\ epic_ops' = Append(epic_ops, [data |-> epic_data, index |-> epic_index])
    /\ UNCHANGED <<epic_data, epic_index>>

\* useEffect(() => { fetchData() }, [])
EpicMount ==
    /\ route = "Epic" /\ ~mounted
    /\ mounted' = TRUE
    /\ EpicFetchCall
    /\ epicFrame

EpicRefresh ==
    /\ route = "Epic" /\ mounted
    /\ EpicSetShown
    /\ EpicFetchCall
    /\ UNCHANGED mounted
    /\ epicFrame

\* axios.get resolved with `list` for the fetch at place i of epic_ops.
EpicResolved(i, list) ==
    /\ route = "Epic"
    /\ i \in 1 .. Len(epic_ops)
    /\ epic_data' = list
    /\ epic_index' = 0
    /\ epic_loading' = FALSE
    /\ epic_ops' = RemoveAt(epic_ops, i)
    /\ UNCHANGED <<epic_error, mounted>>
    /\ epicFrame

EpicRejectedResetsIndex(i) ==
    /\ route = "Epic"
    /\ i \in 1 .. Len(epic_ops)
    /\ epic_error' = ERR_EPIC
    /\ epic_loading' = FALSE
    /\ epic_index' = 0
    /\ epic_ops' = RemoveAt(epic_ops, i)
    /\ UNCHANGED <<epic_data, mounted>>
    /\ UNCHANGED <<route, marsVars, homeVars, apodVars, mergeVars>>

\* axios.get failed for the fetch at place i of epic_ops.
EpicRejected(i) ==
    /\ route = "Epic"
    /\ i \in 1 .. Len(epic_ops)
    /\ epic_error' = ERR_EPIC
    /\ epic_loading' = FALSE
    /\ epic_ops' = RemoveAt(epic_ops, i)
    /\ UNCHANGED <<epic_data, epic_index, mounted>>
    /\ epicFrame

epicNavFrame ==
    /\ UNCHANGED <<epic_data, epic_loading, epic_error, epic_ops, mounted>>
    /\ epicFrame

EpicPrevClick ==
    /\ route = "Epic" /\ mounted
    /\ ~EpicNavDisabled
    /\ epic_index' = prev(epic_index)
    /\ epicNavFrame

EpicNextClick ==
    /\ route = "Epic" /\ mounted
    /\ ~EpicNavDisabled
    /\ epic_index' = next(epic_index)
    /\ epicNavFrame

EpicSurpriseClick(k) ==
    /\ route = "Epic" /\ mounted
    /\ ~EpicNavDisabled
    /\ epic_index' = EpicSurprise(epic_index, k)
    /\ epicNavFrame

\* The keydown listener: ArrowLeft calls prev, ArrowRight calls next.
EpicOnKey(key) ==
    IF key = "ArrowLeft" THEN prev(epic_index)
    ELSE IF key = "ArrowRight" THEN next(epic_index)
    ELSE epic_index

EpicKeyDown(key) ==
    /\ route = "Epic" /\ mounted
    /\ epic_index' = EpicOnKey(key)
    /\ epicNavFrame

\* onClick={() => setIndex(i)} of thumbnail i.
EpicThumbClick(i) ==
    /\ route = "Epic" /\ mounted
    /\ EpicSetShown
    /\ i \in 0 .. (Len(epic_data) - 1)
    /\ epic_index' = i
    /\ epicNavFrame

EpicNext ==
    \/ EpicMount
    \/ EpicRefresh
    \/ \E i \in 1 .. MaxEpicOps, list \in EpicLists : EpicResolved(i, list)
    \/ \E i \in 1 .. MaxEpicOps : EpicRejected(i)
    \/ EpicPrevClick
    \/ EpicNextClick
    \/ \E k \in Rands : EpicSurpriseClick(k)
    \/ \E key \in Keys : EpicKeyDown(key)
    \/ \E i \in 0 .. (Len(epic_data) - 1) : EpicThumbClick(i)

(***************************************************************************)
(* APOD page (Apod.tsx 14-37).                                             *)
(***************************************************************************)
ERR_APOD == "Impossible de charger l'APOD pour le moment."

\* Records the APOD endpoint can answer with (their dates).
ApodRecords == {1, 2}

apodFrame == UNCHANGED <<route, marsVars, homeVars, epicVars, mergeVars>>

\* useEffect(() => { fetchData() }, []): fetchData up to the await; the entry
\* added to apod_ops keeps data as it is at the call.
ApodMount ==
    /\ route = "Apod" /\ ~mounted
    /\ mounted' = TRUE
    /\ apod_loading' = TRUE
    /\ apod_error' = ""
    /\ apod_ops' = Append(apod_ops, apod_data)
    /\ UNCHANGED apod_data
    /\ apodFrame

ApodResolved(i, d) ==
    /\ route = "Apod"
    /\ i \in 1 .. Len(apod_ops)
    /\ apod_data' = d
    /\ apod_loading' = FALSE
    /\ apod_ops' = RemoveAt(apod_ops, i)
    /\ UNCHANGED <<apod_error, mounted>>
    /\ apodFrame

ApodRejected(i) ==
    /\ route = "Apod"
    /\ i \in 1 .. Len(apod_ops)
    /\ apod_error' = ERR_APOD
    /\ apod_loading' = FALSE
    /\ apod_ops' = RemoveAt(apod_ops, i)
    /\ UNCHANGED <<apod_data, mounted>>
    /\ apodFrame

ApodNext ==
    \/ ApodMount
    \/ \E d \in ApodRecords : ApodResolved(1, d)
    \/ ApodRejected(1)

(***************************************************************************)
(* The application.                                                        *)
(***************************************************************************)
Pages == {"Mars", "Home", "Epic", "Apod"}

MarsInit ==
    /\ photos = <<>>
    /\ selected = Null
    /\ loading = FALSE
    /\ err = ""
    /\ params = InitialParams
    /\ requestIdRef = 0
    /\ timers = <<>>
    /\ inflight = {}
    /\ burstFetches = 0
    /\ issuedCurrent = FALSE

HomeInit ==
    /\ home_data = <<>>
    /\ home_searchTerm = <<>>
    /\ home_loading = TRUE
    /\ home_err = ""
    /\ home_ops = <<>>
    /\ home_late = FALSE

EpicInit ==
    /\ epic_data = <<>>
    /\ epic_loading = TRUE
    /\ epic_error = ""
    /\ epic_index = 0
    /\ epic_ops = <<>>

ApodInit ==
    /\ apod_data = Null
    /\ apod_loading = TRUE
    /\ apod_error = ""
    /\ apod_ops = <<>>

Init ==
    /\ route \in Pages
    /\ mounted = FALSE
    /\ MarsInit /\ HomeInit /\ EpicInit /\ ApodInit
    /\ merge_in = <<>> /\ merge_out = <<>>

Next == MarsNext \/ HomeNext \/ EpicNext \/ ApodNext

Spec == Init /\ [][Next]_vars

(***************************************************************************)
(* The merge of loadRandom and surpriseMe applied to bounded inputs: the   *)
(* results of the topics are runs of consecutive URLs, the items of topic  *)
(* t titled by t, so that runs which overlap give one URL several titles.  *)
(***************************************************************************)
RunSizes == {0, 1, 7, 8}
RunStarts == {1, 8, 9}
TopicTitles == <<"t1", "t2", "t3">>

Run(t, start, n) == [i \in 1 .. n |-> [title |-> TopicTitles[t], href |-> start + i - 1]]

MergeInputs ==
    {<<Run(1, 1, n1) \o <<RawNoLink>>, Run(2, s2, n2), Run(3, s3, n3)>> :
        n1 \in RunSizes, n2 \in RunSizes, n3 \in RunSizes,
        s2 \in RunStarts, s3 \in RunStarts}

\* What searchImages returned for each topic of merge_in.
Fetched(raw) == [t \in 1 .. Len(raw) |-> searchImages(raw[t])]

MergeInit ==
    /\ route = "Merge"
    /\ mounted = FALSE
    /\ MarsInit /\ HomeInit /\ EpicInit /\ ApodInit
    /\ merge_in \in MergeInputs
    /\ merge_out = [done |-> FALSE, data |-> <<>>]

ApplyMerge(rnd) ==
    /\ route = "Merge"
    /\ ~merge_out.done
    /\ merge_out' = [done |-> TRUE, data |-> Merged(Fetched(merge_in), rnd)]
    /\ UNCHANGED <<merge_in, route, mounted, marsVars, homeVars, epicVars, apodVars>>

MergeNext == \E rnd \in RandStreams : ApplyMerge(rnd)

SpecMerge == MergeInit /\ [][MergeNext]_vars

(***************************************************************************)
(* The Mars page under fair scheduling: the mount effect runs, time passes *)
(* while a timer is pending, a due timer runs its callback, and every      *)
(* fetchPhotos call comes to an end, by a response or by a failure.        *)
(***************************************************************************)
MarsLiveInit == Init /\ route = "Mars"

\* The end of the fetchPhotos call tagged id.
FetchSettles(id) ==
    LoadPhotosRejected(id) \/ \E fetched \in Responses : LoadPhotosResolved(id, fetched)

MarsFairness ==
    /\ WF_vars(MarsMount)
    /\ WF_vars(Tick)
    /\ \A i \in 1 .. MaxRequests : WF_vars(TimerFire(i))
    /\ \A id \in 1 .. MaxRequests : WF_vars(FetchSettles(id))

SpecMarsLive == MarsLiveInit /\ [][MarsNext]_vars /\ MarsFairness

(***************************************************************************)
(* Properties of the Mars loader and debounce.                             *)
(***************************************************************************)
marsPage == <<photos, selected, err, loading, params, timers, burstFetches>>

\* C1: every loadPhotos call takes a tag greater than every tag issued before
\* it (the counter never decreases, every tag in flight is at most the counter,
\* and a new tag is above the counter); when the call tagged id resolves or
\* rejects while id is no longer the latest tag, nothing of the page state
\* changes; so a response that changes photos, selected, err or loading is
\* that of the latest tag, which is the greatest tag in flight.
C1_StaleResponsesDiscarded ==
    /\ [](\A id \in inflight : id \in 1 .. requestIdRef)
    /\ [][/\ requestIdRef' >= requestIdRef
          /\ \A id \in inflight' \ inflight :
                id > requestIdRef /\ id = requestIdRef'
          /\ \A id \in inflight \ inflight' :
                /\ id # requestIdRef => UNCHANGED marsPage
                /\ <<photos, selected, err, loading>>' # <<photos, selected, err, loading>>
                      => id = requestIdRef /\ \A other \in inflight : other <= id]_vars

\* The newest of two requests has been applied while the older one is still
\* in flight.
C1_Witness ==
    /\ route = "Mars" /\ requestIdRef = 2 /\ inflight = {1}
    /\ ~loading /\ photos = <<1, 2, 3>>

\* C2: at most one debounce timer is pending and it holds the current
\* parameters; a change of rover, camera or sol cancels it and starts a new one
\* with the full delay; the timer that fires issues the fetch with the current
\* parameters; and once no timer is pending the debounce has issued exactly one
\* fetch since the last change (none while the timer is pending).
C2_DebounceOneFetchLastParams ==
    /\ [](route = "Mars" /\ mounted =>
            IF timers = <<>>
            THEN burstFetches = 1
            ELSE Len(timers) = 1 /\ timers[1].p = params /\ burstFetches = 0)
    /\ [][/\ DepsChanged(params, params') =>
                timers' = <<[p |-> params', left |-> DEBOUNCE_MS]>>
          /\ \A i \in 1 .. Len(timers) :
                TimerFire(i) => timers[i].p = params /\ params' = params]_vars

\* The only fetch issued so far is the debounce's, after at least three changes
\* made before the timer fired.
C2_Witness ==
    /\ route = "Mars" /\ requestIdRef = 1 /\ burstFetches = 1 /\ timers = <<>>
    /\ params = [sol |-> 5111, camera |-> "MINITES", rover |-> "Opportunity"]

SolWithinRoverMax(p) == p.sol \in 0 .. MAX_SOL[p.rover]

\* C3: every query issued, by Refresh or by the debounce timer, carries a sol
\* between 0 and the maximum sol of the rover of that query.
C3_IssuedSolWithinRoverMax ==
    [][/\ Refresh => SolWithinRoverMax(params)
       /\ \A i \in 1 .. Len(timers) : TimerFire(i) => SolWithinRoverMax(timers[i].p)]_vars

(***************************************************************************)
(* Properties of the merge of loadRandom and surpriseMe.                   *)
(***************************************************************************)
\* results.flat() of the topics' results of merge_in.
Flattened == Flat(Fetched(merge_in))

UrlsOf(xs) == {xs[i].url : i \in 1 .. Len(xs)}

FirstWithUrl(xs, url) ==
    xs[CHOOSE i \in 1 .. Len(xs) :
        xs[i].url = url /\ \A j \in 1 .. (i - 1) : xs[j].url # url]

LastWithUrl(xs, url) ==
    xs[CHOOSE i \in 1 .. Len(xs) :
        xs[i].url = url /\ \A j \in (i + 1) .. Len(xs) : xs[j].url # url]

\* C4 as claimed: the item kept for a URL is the first item of the flattened
\* results with that URL.
C4_FirstOccurrenceWins ==
    merge_out.done =>
        \A i \in 1 .. Len(merge_out.data) :
            merge_out.data[i] = FirstWithUrl(Flattened, merge_out.data[i].url)

\* C4 as amended: the item kept for a URL is the last item of the flattened
\* results with that URL.
C4_LastOccurrenceWins ==
    merge_out.done =>
        \A i \in 1 .. Len(merge_out.data) :
            merge_out.data[i] = LastWithUrl(Flattened, merge_out.data[i].url)

\* The merged list shows a URL that the flattened results hold with two titles.
C4_Witness ==
    /\ merge_out.done
    /\ \E i \in 1 .. Len(merge_out.data) :
          FirstWithUrl(Flattened, merge_out.data[i].url)
              # LastWithUrl(Flattened, merge_out.data[i].url)

\* C5: the merged list holds no URL twice, holds only items of the fetched
\* results, and its length is the smaller of the number of distinct URLs
\* fetched and the display count of 15.
C5_MergedUniqueSubsetTruncated ==
    merge_out.done =>
        LET d == merge_out.data
            flat == Flattened
        IN /\ \A i, j \in 1 .. Len(d) : d[i].url = d[j].url => i = j
           /\ \A i \in 1 .. Len(d) : \E j \in 1 .. Len(flat) : d[i] = flat[j]
           /\ Len(d) = Min(Cardinality(UrlsOf(flat)), DISPLAY_COUNT)

\* More than 15 distinct URLs were fetched, some of them several times.
C5_Witness ==
    /\ merge_out.done
    /\ Cardinality(UrlsOf(Flattened)) > DISPLAY_COUNT
    /\ Len(Flattened) > Cardinality(UrlsOf(Flattened))
    /\ Len(merge_out.data) = DISPLAY_COUNT

(***************************************************************************)
(* Properties of loading, failing and navigating.                          *)
(***************************************************************************)
\* C6: when a load succeeds and is applied, the list becomes the fetched list
\* and the position the first item: on Mars selected becomes 0 for a non-empty
\* list and null for an empty one; on EPIC index becomes 0.
C6_LoadResetsPosition ==
    [][/\ \A id \in inflight, fetched \in Responses :
            LoadPhotosResolved(id, fetched) /\ id = requestIdRef =>
                /\ photos' = (IF fetched.isArray THEN fetched.val ELSE <<>>)
                /\ selected' = (IF Len(photos') > 0 THEN 0 ELSE Null)
       /\ \A i \in 1 .. Len(epic_ops), list \in EpicLists :
            EpicResolved(i, list) => epic_data' = list /\ epic_index' = 0
       /\ Len(epic_ops') < Len(epic_ops) /\ epic_error' = "" =>
            epic_index' = 0 /\ epic_data' \in EpicLists]_vars

\* The second request, the latest, succeeded with a one-item list.
C6_Witness ==
    /\ route = "Mars" /\ requestIdRef = 2 /\ inflight = {} /\ ~loading /\ err = ""
    /\ photos = <<1>> /\ selected = 0

\* C7: when a Mars request fails and its tag is the latest, err is the fixed
\* message, loading is false, photos and selected are unchanged; when it is
\* stale, photos, selected, err and loading are unchanged.
C7_MarsFailureKeepsData ==
    [][\A id \in inflight :
          LoadPhotosRejected(id) =>
              IF id = requestIdRef
              THEN err' = ERR_MARS /\ loading' = FALSE /\ UNCHANGED <<photos, selected>>
              ELSE UNCHANGED <<photos, selected, err, loading>>]_vars

\* A failure is shown over photos and a selection that it left in place.
C7_Witness ==
    /\ route = "Mars" /\ err = ERR_MARS /\ ~loading /\ inflight = {}
    /\ photos = <<1, 2, 3>> /\ selected = 2

\* C8 as claimed: an operation that fails ends with its error message set,
\* loading false, and data (on EPIC, index too) as they were before the call.
C8_FailureRestoresStateAtCall ==
    [][/\ \A i \in 1 .. Len(home_ops) :
            HomeRejected(i) =>
                /\ home_err' = HomeErrOf(home_ops[i].op) /\ home_loading' = FALSE
                /\ home_data' = home_ops[i].before
       /\ \A i \in 1 .. Len(epic_ops) :
            EpicRejected(i) =>
                /\ epic_error' = ERR_EPIC /\ epic_loading' = FALSE
                /\ epic_data' = epic_ops[i].data /\ epic_index' = epic_ops[i].index
       /\ \A i \in 1 .. Len(apod_ops) :
            ApodRejected(i) =>
                /\ apod_error' = ERR_APOD /\ apod_loading' = FALSE
                /\ apod_data' = apod_ops[i]]_vars

\* C8 as amended: an operation that fails ends with its error message set and
\* loading false, and the handling of the failure changes neither data nor, on
\* EPIC, index: they are as they were just before the failure was handled.
C8_FailureLeavesStateAsFound ==
    [][/\ \A i \in 1 .. Len(home_ops) :
            HomeRejected(i) =>
                /\ home_err' = HomeErrOf(home_ops[i].op) /\ home_loading' = FALSE
                /\ home_data' = home_data
       /\ \A i \in 1 .. Len(epic_ops) :
            EpicRejected(i) =>
                /\ epic_error' = ERR_EPIC /\ epic_loading' = FALSE
                /\ epic_data' = epic_data /\ epic_index' = epic_index
       /\ \A i \in 1 .. Len(apod_ops) :
            ApodRejected(i) =>
                /\ apod_error' = ERR_APOD /\ apod_loading' = FALSE
                /\ apod_data' = apod_data]_vars

\* An EPIC refresh failed after the index had moved during the fetch.
C8_Witness ==
    /\ route = "Epic" /\ epic_error = ERR_EPIC /\ ~epic_loading /\ epic_ops = <<>>
    /\ epic_data = <<1, 2, 3>> /\ epic_index = 2

RECURSIVE TimesNextSelected(_, _, _)
TimesNextSelected(k, i, n) ==
    IF k = 0 THEN i ELSE TimesNextSelected(k - 1, NextSelected(i, n), n)
RECURSIVE TimesPrevSelected(_, _, _)
TimesPrevSelected(k, i, n) ==
    IF k = 0 THEN i ELSE TimesPrevSelected(k - 1, PrevSelected(i, n), n)
RECURSIVE TimesNext(_, _)
TimesNext(k, i) == IF k = 0 THEN i ELSE TimesNext(k - 1, next(i))
RECURSIVE TimesPrev(_, _)
TimesPrev(k, i) == IF k = 0 THEN i ELSE TimesPrev(k - 1, prev(i))

\* C9: with a list of length n > 0, in the open Mars lightbox and in the EPIC
\* carousel, previous takes index i to (i - 1 + n) mod n and next takes it to
\* (i + 1) mod n; previous from 0 gives n - 1, next from n - 1 gives 0, and n
\* times next, or n times previous, gives i again.
C9_NavigationWraps ==
    /\ [](route = "Mars" /\ LightboxOpen =>
            LET n == Len(photos)
                i == selected
            IN /\ PrevSelected(i, n) = (i - 1 + n) % n
               /\ NextSelected(i, n) = (i + 1) % n
               /\ onKey("ArrowLeft") = (i - 1 + n) % n
               /\ onKey("ArrowRight") = (i + 1) % n
               /\ i = 0 => PrevSelected(i, n) = n - 1
               /\ i = n - 1 => NextSelected(i, n) = 0
               /\ TimesNextSelected(n, i, n) = i
               /\ TimesPrevSelected(n, i, n) = i)
    /\ [](route = "Epic" /\ hasData =>
            LET n == Len(epic_data)
                i == epic_index
            IN /\ prev(i) = (i - 1 + n) % n
               /\ next(i) = (i + 1) % n
               /\ i = 0 => prev(i) = n - 1
               /\ i = n - 1 => next(i) = 0
               /\ TimesNext(n, i) = i
               /\ TimesPrev(n, i) = i)
    /\ [][/\ LightboxPrev \/ (LightboxOpen /\ MarsKeyDown("ArrowLeft")) =>
                selected' = (selected - 1 + Len(photos)) % Len(photos)
          /\ LightboxNext \/ (LightboxOpen /\ MarsKeyDown("ArrowRight")) =>
                selected' = (selected + 1) % Len(photos)
          /\ EpicPrevClick \/ (hasData /\ EpicKeyDown("ArrowLeft")) =>
                epic_index' = (epic_index - 1 + Len(epic_data)) % Len(epic_data)
          /\ EpicNextClick \/ (hasData /\ EpicKeyDown("ArrowRight")) =>
                epic_index' = (epic_index + 1) % Len(epic_data)]_vars

\* The lightbox is open on the last of three photos, where next wraps to 0.
C9_Witness ==
    /\ route = "Mars" /\ LightboxOpen /\ Len(photos) = 3 /\ selected = 2

\* C10: with a list of length 0 no index is computed modulo 0 and nothing is
\* read from the list: on Mars selected is null, there is no current photo, the
\* lightbox is closed and the arrow and escape keys change nothing; on EPIC the
\* current item is null and previous, next and random leave index as it is.
C10_EmptyListIsInert ==
    /\ [](route = "Mars" /\ photos = <<>> =>
            /\ selected = Null
            /\ currentPhoto = Undefined
            /\ ~LightboxOpen
            /\ \A key \in Keys : onKey(key) = selected)
    /\ [](route = "Epic" /\ epic_data = <<>> =>
            /\ current = Null
            /\ prev(epic_index) = epic_index
            /\ next(epic_index) = epic_index
            /\ \A k \in Rands : EpicSurprise(epic_index, k) = epic_index)
    /\ [](selected # NaN /\ epic_index # NaN)
    /\ [][/\ \A key \in Keys : photos = <<>> /\ MarsKeyDown(key) => UNCHANGED marsVars
          /\ \A key \in Keys : epic_data = <<>> /\ EpicKeyDown(key) => UNCHANGED epicVars]_vars

\* The latest Mars fetch, the second one, was applied with an empty list.
C10_Witness ==
    /\ route = "Mars" /\ requestIdRef = 2 /\ inflight = {} /\ ~loading /\ err = ""
    /\ photos = <<>>

(***************************************************************************)
(* Properties of the order of completion on the Home page.                 *)
(***************************************************************************)
\* What an operation of each kind can set data to when it resolves.
HomeOutcomes ==
    [op \in {"loadRandom", "surpriseMe", "search"} |->
        {HomeDataOf(op, results, rnd) : results \in HomeResults, rnd \in RandStreams}]

\* C11: the Home page does not guard against out-of-order completion.  Every
\* step in which an operation in flight ends otherwise than by its failure is
\* its resolution: a result of that operation becomes the data displayed and
\* loading becomes false, also when an operation issued later than it has
\* already resolved (the data then ends up being the result of the
\* earlier-issued operation), and the operations still in flight stay in flight.
C11_HomeAppliesEveryResolution ==
    [][\A i \in 1 .. Len(home_ops) :
          (route = "Home" /\ home_ops' = Overtake(home_ops, i) /\ ~HomeRejected(i)) =>
              /\ home_data' \in HomeOutcomes[home_ops[i].op]
              /\ home_loading' = FALSE
              /\ home_late' = home_ops[i].overtaken
              /\ UNCHANGED <<home_err, home_searchTerm>>]_vars

\* The initial load resolved after a search issued later had resolved, and its
\* merged result (two topics' items) replaced the result of the search.
C11_Witness ==
    /\ route = "Home" /\ home_late /\ home_ops = <<>> /\ ~home_loading
    /\ home_searchTerm = <<" ", "m">>
    /\ Len(home_data) = 2 /\ home_data[1].title = "b" /\ home_data[2].title = "a1"

(***************************************************************************)
(* Properties of the Mars loader under fair scheduling.                    *)
(***************************************************************************)
\* A change of a parameter or a click on Refresh.
ParamChangeOrRefresh ==
    \/ Refresh
    \/ \E i \in 1 .. Len(ROVERS) : handleRoverChange(ROVERS[i])
    \/ \E camera \in CamPicks(params.rover) : handleCameraChange(camera)
    \/ \E v \in SolInputs : handleSolInput(v)
    \/ \E k1 \in Rands, k2 \in Rands, k3 \in Rands : surprise(k1, k2, k3)

\* The requests of the run are used up while a timer is still pending.
RequestsExhausted == requestIdRef = MaxRequests /\ timers # <<>>

\* Every request has come to its end, nothing is loading, and the request made
\* last carried the parameters as they are.
MarsSettled ==
    /\ mounted /\ inflight = {} /\ ~loading
    /\ RequestsExhausted \/ (timers = <<>> /\ requestIdRef > 0 /\ issuedCurrent)

\* C12: on the Mars page, if parameter changes and Refresh clicks stop (and
\* every network call ends), then eventually, and from then on, a fetch
\* carrying the final parameters has been issued, no request is in flight and
\* loading is false; when the request issued last succeeds, photos becomes its
\* result; a superseded request that ends changes nothing of the page.
C12_MarsEventuallySettles ==
    /\ (<>[][~ParamChangeOrRefresh]_vars) => <>[]MarsSettled
    /\ [][\A id \in inflight :
            /\ \A fetched \in Responses :
                  LoadPhotosResolved(id, fetched) =>
                      IF id = requestIdRef
                      THEN photos' = ListOf(fetched) /\ ~loading'
                      ELSE UNCHANGED marsPage
            /\ LoadPhotosRejected(id) =>
                  IF id = requestIdRef THEN ~loading' ELSE UNCHANGED marsPage]_vars

\* The request issued last, after an earlier one, carried the final
\* parameters, succeeded, and all is at rest with its result displayed.
C12_Witness ==
    /\ route = "Mars" /\ mounted /\ inflight = {} /\ ~loading /\ err = ""
    /\ timers = <<>> /\ requestIdRef = 2 /\ issuedCurrent
    /\ params # InitialParams /\ photos = <<1, 2, 3>>

(***************************************************************************)
(* Invariants of the Mars page.                                            *)
(***************************************************************************)
\* C13: on the Mars page, loading is true exactly when the request issued last
\* has not come to its end; a non-empty err is the fixed message, set by the
\* failure of the request issued last and cleared by every new request, so
\* that while err is non-empty the request issued last has ended, by a
\* failure; the end of a superseded request changes neither loading nor err.
C13_LoadingTracksLatestRequest ==
    /\ [](route = "Mars" => (loading <=> requestIdRef \in inflight))
    /\ [](route = "Mars" /\ err # "" =>
              err = ERR_MARS /\ requestIdRef > 0 /\ requestIdRef \notin inflight)
    /\ [][/\ err' # err =>
                 \/ err' = "" /\ requestIdRef' = NextRequestId(requestIdRef)
                 \/ err' = ERR_MARS /\ LoadPhotosRejected(requestIdRef)
          /\ requestIdRef' # requestIdRef => err' = "" /\ loading'
          /\ \A id \in inflight \ {requestIdRef} :
                 (LoadPhotosRejected(id) \/ \E fetched \in Responses :
                                                LoadPhotosResolved(id, fetched))
                     => UNCHANGED <<loading, err>>]_vars

\* The request issued last has failed while the one it superseded is still
\* in flight.
C13_Witness ==
    /\ route = "Mars" /\ requestIdRef = 2 /\ inflight = {1}
    /\ err = ERR_MARS /\ ~loading

\* The camera of p is one of the cameras listed for the rover of p.
CameraOfRover(p) ==
    \E i \in 1 .. Len(CameraOptions[p.rover]) : CameraOptions[p.rover][i] = p.camera

\* C14: on the Mars page the selected camera is always one of the cameras
\* listed for the selected rover, in params and in the parameters captured by
\* a pending timer, so that every query issued (by Refresh with params, by a
\* timer with the parameters it captured) names a camera the queried rover has.
C14_CameraBelongsToRover ==
    /\ [](route = "Mars" =>
              /\ CameraOfRover(params)
              /\ \A i \in 1 .. Len(timers) : CameraOfRover(timers[i].p))
    /\ [][/\ Refresh => CameraOfRover(params)
          /\ \A i \in 1 .. Len(timers) : TimerFire(i) => CameraOfRover(timers[i].p)]_vars

\* A query was issued for a camera that only some rovers have, after the
\* rover and the camera had been changed.
C14_Witness ==
    /\ route = "Mars" /\ requestIdRef > 0 /\ issuedCurrent
    /\ params.rover = "Spirit" /\ params.camera = "MINITES"

\* b holds the items of a, each as many times, in some order.
IsPermutation(a, b) ==
    /\ Len(a) = Len(b)
    /\ \A i \in 1 .. Len(a) :
          Cardinality({j \in 1 .. Len(a) : a[j] = a[i]})
              = Cardinality({j \in 1 .. Len(b) : b[j] = a[i]})

\* C15: the Mars selected value is always null or an index of photos, and the
\* EPIC index is an index of data whenever data is non-empty; Shuffle replaces
\* photos by a permutation of it (same items, same length) and leaves selected.
C15_PositionsInRange ==
    /\ [](route = "Mars" => selected = Null \/ selected \in 0 .. (Len(photos) - 1))
    /\ [](route = "Epic" /\ hasData => epic_index \in 0 .. (Len(epic_data) - 1))
    /\ [][\A rnd \in RandStreams :
            shuffleOrder(rnd) => IsPermutation(photos, photos') /\ selected' = selected]_vars

\* The last photo is selected in a list that Shuffle has reordered.
C15_Witness ==
    /\ route = "Mars" /\ selected = 2 /\ Len(photos) = 3 /\ photos # <<1, 2, 3>>

(***************************************************************************)
(* Properties of the EPIC page's fetches.                                  *)
(***************************************************************************)
\* C16: on the EPIC page at most one fetch is in flight at any time.  A fetch
\* is started only by the mount or by Refresh, and Refresh only while loading
\* is false and data is non-empty, when no fetch is in flight; once mounted,
\* loading is true exactly while that fetch is in flight (before the mount
\* effect has run, loading is true and nothing is in flight); the response
\* that is applied is that of the only fetch, so none overwrites a newer one.
C16_EpicSingleFetch ==
    /\ [](route = "Epic" =>
              /\ Len(epic_ops) <= 1
              /\ mounted => (epic_loading <=> Len(epic_ops) = 1)
              /\ ~mounted => epic_loading /\ epic_ops = <<>>)
    /\ [][/\ Len(epic_ops') > Len(epic_ops) =>
                 /\ epic_ops = <<>>
                 /\ EpicMount \/ (EpicRefresh /\ ~epic_loading /\ hasData)
          /\ \A i \in 1 .. Len(epic_ops), list \in EpicLists :
                 EpicResolved(i, list) => i = 1 /\ epic_ops' = <<>>]_vars

\* A fetch started by Refresh is the only one in flight.
C16_Witness ==
    /\ route = "Epic" /\ mounted /\ epic_loading /\ Len(epic_ops) = 1
    /\ epic_data = <<1, 2, 3>> /\ epic_index = 2

====
